---- MODULE Spec2Model ----
(***************************************************************************)
(* Model of src/pages/FrequencyBars.jsx: the AudioVisualizer controller    *)
(* (audio source lifecycle: file element, microphone stream, system        *)
(* capture stream, audio context and analyser) and the per-frame mapping   *)
(* functions of the four visualizers.                                      *)
(*                                                                         *)
(* Objects the browser hands out (audio contexts, media streams, audio     *)
(* elements) are kept in sequences indexed by their identity, so that an   *)
(* object the component no longer references can still be inspected.       *)
(* A null reference is 0.  The component stays mounted throughout (the     *)
(* unmount effect, which only calls cleanupAudio, is not followed).        *)
(***************************************************************************)
EXTENDS Integers, Sequences, FiniteSets, TLC

\* ------------------------------------------------------------------ bounds
MaxSelect == 2     \* source selections (file, microphone, system) in one run
MaxFrames == 3     \* frames followed after a visualizer mounts

\* Files the user can pick: a name (characters) and the media duration.
Files == { [name |-> <<"a", ".", "m">>, dur |-> 2] }

Modes == {"bars", "linear", "sphere", "wave"}

VARIABLES
  analyzer,          \* useState: 0 (null) or the id of the context owning the analyser
  isPlaying,
  duration,
  currentTime,
  inputMode,
  fileName,
  isMicActive,
  isSystemActive,
  visualizerMode,
  audioContextRef,   \* useRef: 0 or a context id
  audioElementRef,   \* useRef: 0 or an audio element id
  mediaStreamRef,    \* useRef: 0 or a stream id
  ctxs,              \* every AudioContext ever created: its state
  audios,            \* every Audio element ever created
  streams,           \* every MediaStream ever granted
  pendingMic,        \* getUserMedia promises not yet settled
  pendingSys,        \* getDisplayMedia promises not yet settled
  notice,            \* alert() shown by the last step ("none" if none)
  selections,        \* source selections made so far (capped by MaxSelect)
  probe,             \* the index of the mesh that is observed
  hoveredIndex,      \* hoveredIndexRef / isHoveredRef of the mounted visualizer
  elem,              \* the observed visual element of the mounted visualizer
  lastFrame          \* what the last frame callback ran

ctlVars ==
  << analyzer, isPlaying, duration, currentTime, inputMode, fileName,
     isMicActive, isSystemActive, visualizerMode, audioContextRef,
     audioElementRef, mediaStreamRef, ctxs, audios, streams, pendingMic,
     pendingSys, notice, selections >>

sceneVars == << probe, hoveredIndex, elem, lastFrame >>

vars == << ctlVars, sceneVars >>

\* ------------------------------------------------------------ file names
NoName == [set |-> FALSE, text |-> <<>>]
Name(t) == [set |-> TRUE, text |-> t]

\* file.name.replace(/\.[^/.]+$/, ""): drop a final ".ext" when ext is a
\* non-empty run of characters other than "/" and ".".
ExtStart(n) ==
  IF \E p \in 1..Len(n) :
       /\ n[p] = "."
       /\ p < Len(n)
       /\ \A q \in (p + 1)..Len(n) : n[q] \notin {"/", "."}
  THEN CHOOSE p \in 1..Len(n) :
       /\ n[p] = "."
       /\ p < Len(n)
       /\ \A q \in (p + 1)..Len(n) : n[q] \notin {"/", "."}
  ELSE 0

StripExt(n) == IF ExtStart(n) = 0 THEN n ELSE SubSeq(n, 1, ExtStart(n) - 1)

\* ------------------------------------------------------------- cleanup
StopTracks(st) ==
  [st EXCEPT !.tracks =
     [k \in DOMAIN st.tracks |->
        IF st.tracks[k] = "none" THEN "none" ELSE "ended"]]

\* audioElementRef.current.pause(); URL.revokeObjectURL(src)
CleanedAudios ==
  IF audioElementRef # 0
  THEN [audios EXCEPT ![audioElementRef].paused = TRUE,
                      ![audioElementRef].revoked = TRUE]
  ELSE audios

\* mediaStreamRef.current.getTracks().forEach(track => track.stop())
CleanedStreams ==
  IF mediaStreamRef # 0
  THEN [streams EXCEPT ![mediaStreamRef] = StopTracks(@)]
  ELSE streams

\* audioContextRef.current.close()
CleanedCtxs ==
  IF audioContextRef # 0
  THEN [ctxs EXCEPT ![audioContextRef] = "closed"]
  ELSE ctxs

\* cleanupAudio as a whole step (nothing follows it in the caller)
cleanupAudio ==
  /\ isPlaying' = FALSE
  /\ isMicActive' = FALSE
  /\ isSystemActive' = FALSE
  /\ audios' = CleanedAudios
  /\ audioElementRef' = 0
  /\ streams' = CleanedStreams
  /\ mediaStreamRef' = 0
  /\ ctxs' = CleanedCtxs
  /\ audioContextRef' = 0

\* ---------------------------------------------------------------- Init
CtlInit ==
  /\ analyzer = 0
  /\ isPlaying = FALSE
  /\ duration = 0
  /\ currentTime = 0
  /\ inputMode = "file"
  /\ fileName = NoName
  /\ isMicActive = FALSE
  /\ isSystemActive = FALSE
  /\ visualizerMode = "bars"
  /\ audioContextRef = 0
  /\ audioElementRef = 0
  /\ mediaStreamRef = 0
  /\ ctxs = << >>
  /\ audios = << >>
  /\ streams = << >>
  /\ pendingMic = 0
  /\ pendingSys = 0
  /\ notice = "none"
  /\ selections = 0

\* ------------------------------------------------------ initAudioContext
\* The context sequence after initAudioContext on top of `base`: a new open
\* context.  (Whether an open context is running or suspended is not
\* recorded; resume() in togglePlay changes nothing else.)
initAudioContext(base) == Append(base, "open")

\* -------------------------------------------------------- handleFileChange
NewAudio(f) ==
  [dur |-> f.dur, paused |-> TRUE, pending |-> {}, meta |-> FALSE,
   time |-> 0, ended |-> FALSE, revoked |-> FALSE]

handleFileChange(f) ==
  /\ selections < MaxSelect
  /\ selections' = selections + 1
  \* cleanupAudio()
  /\ isPlaying' = FALSE
  /\ isMicActive' = FALSE
  /\ isSystemActive' = FALSE
  /\ streams' = CleanedStreams
  /\ mediaStreamRef' = 0
  \* initAudioContext()
  /\ ctxs' = initAudioContext(CleanedCtxs)
  /\ audioContextRef' = Len(ctxs) + 1
  /\ analyzer' = Len(ctxs) + 1
  /\ fileName' = Name(StripExt(f.name))
  /\ inputMode' = "file"
  \* new Audio(audioUrl)
  /\ audios' = Append(CleanedAudios, NewAudio(f))
  /\ audioElementRef' = Len(audios) + 1
  /\ notice' = "none"
  /\ UNCHANGED << duration, currentTime, visualizerMode, pendingMic, pendingSys >>

\* audio 'loadedmetadata': setDuration; audio.play().then(...).catch(...)
LoadedMetadata(a) ==
  /\ ~audios[a].meta
  /\ duration' = audios[a].dur
  /\ audios' = [audios EXCEPT ![a].meta = TRUE,
                              ![a].paused = FALSE,
                              ![a].pending = @ \cup {"meta"}]
  /\ notice' = "none"
  /\ UNCHANGED << analyzer, isPlaying, currentTime, inputMode, fileName,
                  isMicActive, isSystemActive, visualizerMode, audioContextRef,
                  audioElementRef, mediaStreamRef, ctxs, streams, pendingMic,
                  pendingSys >>
  /\ UNCHANGED selections

\* The pending play() promises of element a are fulfilled: playback started.
PlayResolved(a) ==
  /\ audios[a].pending # {}
  /\ ~audios[a].paused
  /\ audios' = [audios EXCEPT ![a].pending = {}]
  /\ isPlaying' = IF "meta" \in audios[a].pending THEN TRUE ELSE isPlaying
  /\ notice' = "none"
  /\ UNCHANGED << analyzer, duration, currentTime, inputMode, fileName,
                  isMicActive, isSystemActive, visualizerMode, audioContextRef,
                  audioElementRef, mediaStreamRef, ctxs, streams, pendingMic,
                  pendingSys >>
  /\ UNCHANGED selections

\* The pending play() promises of element a are rejected (not allowed, not
\* supported, or aborted by pause()): .catch(console.error) for the
\* loadedmetadata request, nothing registered for togglePlay's request.
PlayRejected(a) ==
  /\ audios[a].pending # {}
  /\ audios' = [audios EXCEPT ![a].pending = {}, ![a].paused = TRUE]
  /\ notice' = "none"
  /\ UNCHANGED << analyzer, isPlaying, duration, currentTime, inputMode,
                  fileName, isMicActive, isSystemActive, visualizerMode,
                  audioContextRef, audioElementRef, mediaStreamRef, ctxs,
                  streams, pendingMic, pendingSys >>
  /\ UNCHANGED selections

\* audio 'timeupdate' while playing: setCurrentTime(audio.currentTime)
TimeUpdate(a) ==
  /\ ~audios[a].paused
  /\ audios[a].pending = {}
  /\ ~audios[a].ended
  /\ audios[a].time < audios[a].dur
  /\ audios' = [audios EXCEPT ![a].time = @ + 1]
  /\ currentTime' = audios[a].time + 1
  /\ notice' = "none"
  /\ UNCHANGED << analyzer, isPlaying, duration, inputMode, fileName,
                  isMicActive, isSystemActive, visualizerMode, audioContextRef,
                  audioElementRef, mediaStreamRef, ctxs, streams, pendingMic,
                  pendingSys >>
  /\ UNCHANGED selections

\* audio 'ended': setIsPlaying(false)
Ended(a) ==
  /\ ~audios[a].paused
  /\ audios[a].pending = {}
  /\ ~audios[a].ended
  /\ audios[a].time = audios[a].dur
  /\ audios' = [audios EXCEPT ![a].ended = TRUE]
  /\ isPlaying' = FALSE
  /\ notice' = "none"
  /\ UNCHANGED << analyzer, duration, currentTime, inputMode, fileName,
                  isMicActive, isSystemActive, visualizerMode, audioContextRef,
                  audioElementRef, mediaStreamRef, ctxs, streams, pendingMic,
                  pendingSys >>
  /\ UNCHANGED selections

\* ---------------------------------------------------------- handleMicInput
\* The synchronous part, up to the await.
handleMicInput ==
  /\ selections < MaxSelect
  /\ selections' = selections + 1
  /\ cleanupAudio
  /\ fileName' = Name(<<"Live Microphone Input">>)
  /\ inputMode' = "mic"
  /\ pendingMic' = pendingMic + 1
  /\ notice' = "none"
  /\ UNCHANGED << analyzer, duration, currentTime, visualizerMode, pendingSys >>

MicStream ==
  [kind |-> "mic", tracks |-> [audio |-> "live", video |-> "none"],
   onended |-> FALSE]

\* getUserMedia resolved: the rest of the try block.
MicGranted ==
  /\ pendingMic > 0
  /\ pendingMic' = pendingMic - 1
  /\ streams' = Append(streams, MicStream)
  /\ mediaStreamRef' = Len(streams) + 1
  /\ isMicActive' = TRUE
  /\ ctxs' = initAudioContext(ctxs)
  /\ audioContextRef' = Len(ctxs) + 1
  /\ analyzer' = Len(ctxs) + 1
  /\ notice' = "none"
  /\ UNCHANGED << isPlaying, duration, currentTime, inputMode, fileName,
                  isSystemActive, visualizerMode, audioElementRef, audios,
                  pendingSys >>
  /\ UNCHANGED selections

\* getUserMedia rejected: the catch block.
MicDenied ==
  /\ pendingMic > 0
  /\ pendingMic' = pendingMic - 1
  /\ notice' = "Microphone access denied. Please check permission."
  /\ UNCHANGED << analyzer, isPlaying, duration, currentTime, inputMode,
                  fileName, isMicActive, isSystemActive, visualizerMode,
                  audioContextRef, audioElementRef, mediaStreamRef, ctxs,
                  audios, streams, pendingSys >>
  /\ UNCHANGED selections

\* ------------------------------------------------------- handleSystemAudio
handleSystemAudio ==
  /\ selections < MaxSelect
  /\ selections' = selections + 1
  /\ cleanupAudio
  /\ pendingSys' = pendingSys + 1
  /\ notice' = "none"
  /\ UNCHANGED << analyzer, duration, currentTime, inputMode, fileName,
                  visualizerMode, pendingMic >>

SysStream(hasAudio) ==
  [kind |-> "system",
   tracks |-> [audio |-> IF hasAudio THEN "live" ELSE "none", video |-> "live"],
   onended |-> FALSE]

\* A continuation that alerts and returns without stopping the tracks.
SystemGrantedKeepsTracks(hasAudio) ==
  /\ pendingSys > 0
  /\ pendingSys' = pendingSys - 1
  /\ IF ~hasAudio
     THEN /\ notice' = "No audio shared!"
          /\ streams' = Append(streams, SysStream(FALSE))
          /\ UNCHANGED << analyzer, fileName, inputMode, isSystemActive,
                          mediaStreamRef, ctxs, audioContextRef >>
     ELSE /\ notice' = "none"
          /\ fileName' = Name(<<"System Audio (Screen Share)">>)
          /\ inputMode' = "system"
          /\ isSystemActive' = TRUE
          /\ streams' = Append(streams, [SysStream(TRUE) EXCEPT !.onended = TRUE])
          /\ mediaStreamRef' = Len(streams) + 1
          /\ ctxs' = initAudioContext(ctxs)
          /\ audioContextRef' = Len(ctxs) + 1
          /\ analyzer' = Len(ctxs) + 1
  /\ UNCHANGED << isPlaying, duration, currentTime, isMicActive,
                  visualizerMode, audioElementRef, audios, pendingMic >>
  /\ UNCHANGED selections

\* getDisplayMedia resolved: the rest of the try block.
SystemGranted(hasAudio) ==
  /\ pendingSys > 0
  /\ pendingSys' = pendingSys - 1
  /\ IF ~hasAudio
     THEN \* stream.getAudioTracks().length === 0: alert, stop tracks, return
          /\ notice' = "No audio shared!"
          /\ streams' = Append(streams, StopTracks(SysStream(FALSE)))
          /\ UNCHANGED << analyzer, fileName, inputMode, isSystemActive,
                          mediaStreamRef, ctxs, audioContextRef >>
     ELSE /\ notice' = "none"
          /\ fileName' = Name(<<"System Audio (Screen Share)">>)
          /\ inputMode' = "system"
          /\ isSystemActive' = TRUE
          /\ streams' = Append(streams, [SysStream(TRUE) EXCEPT !.onended = TRUE])
          /\ mediaStreamRef' = Len(streams) + 1
          /\ ctxs' = initAudioContext(ctxs)
          /\ audioContextRef' = Len(ctxs) + 1
          /\ analyzer' = Len(ctxs) + 1
  /\ UNCHANGED << isPlaying, duration, currentTime, isMicActive,
                  visualizerMode, audioElementRef, audios, pendingMic >>
  /\ UNCHANGED selections

\* getDisplayMedia rejected: the catch block.
SystemDenied ==
  /\ pendingSys > 0
  /\ pendingSys' = pendingSys - 1
  /\ notice' = "none"
  /\ UNCHANGED << analyzer, isPlaying, duration, currentTime, inputMode,
                  fileName, isMicActive, isSystemActive, visualizerMode,
                  audioContextRef, audioElementRef, mediaStreamRef, ctxs,
                  audios, streams, pendingMic >>
  /\ UNCHANGED selections

\* The browser's "Stop sharing" button ends the tracks of a shared stream;
\* the video track's onended handler: cleanupAudio(); setFileName(null).
StopSharing(s) ==
  /\ streams[s].kind = "system"
  /\ streams[s].tracks.video = "live"
  /\ IF streams[s].onended
     THEN /\ isPlaying' = FALSE
          /\ isMicActive' = FALSE
          /\ isSystemActive' = FALSE
          /\ audios' = CleanedAudios
          /\ audioElementRef' = 0
          /\ streams' = [CleanedStreams EXCEPT ![s] = StopTracks(@)]
          /\ mediaStreamRef' = 0
          /\ ctxs' = CleanedCtxs
          /\ audioContextRef' = 0
          /\ fileName' = NoName
     ELSE /\ streams' = [streams EXCEPT ![s] = StopTracks(@)]
          /\ UNCHANGED << isPlaying, isMicActive, isSystemActive, audios,
                          audioElementRef, mediaStreamRef, ctxs,
                          audioContextRef, fileName >>
  /\ notice' = "none"
  /\ UNCHANGED << analyzer, duration, currentTime, inputMode, visualizerMode,
                  pendingMic, pendingSys >>
  /\ UNCHANGED selections

\* --------------------------------------------------------------- controls
\* audio.play(): a new pending promise; an ended element restarts at 0.
Played(au) ==
  [au EXCEPT !.paused = FALSE,
             !.pending = @ \cup {"toggle"},
             !.time = IF au.ended THEN 0 ELSE @,
             !.ended = FALSE]

togglePlay ==
  IF inputMode \in {"mic", "system"}
  THEN IF isMicActive \/ isSystemActive
       THEN /\ cleanupAudio
            /\ notice' = "none"
            /\ UNCHANGED << analyzer, duration, currentTime, inputMode,
                            fileName, visualizerMode, pendingMic, pendingSys,
                            selections >>
       ELSE IF inputMode = "mic" THEN handleMicInput ELSE handleSystemAudio
  ELSE /\ audioElementRef # 0
       \* audioContextRef.current?.state === 'suspended' -> resume()
       /\ ctxs' = ctxs
       /\ audios' = IF isPlaying
                    THEN [audios EXCEPT ![audioElementRef].paused = TRUE]
                    ELSE [audios EXCEPT ![audioElementRef] = Played(@)]
       /\ isPlaying' = ~isPlaying
       /\ notice' = "none"
       /\ UNCHANGED << analyzer, duration, currentTime, inputMode, fileName,
                       isMicActive, isSystemActive, visualizerMode,
                       audioContextRef, audioElementRef, mediaStreamRef,
                       streams, pendingMic, pendingSys, selections >>

\* The seek slider, rendered only when no capture is active; its range is
\* 0..duration (the duration state).
handleSeek(newTime) ==
  /\ ~isMicActive /\ ~isSystemActive
  /\ inputMode \notin {"mic", "system"}
  /\ audioElementRef # 0
  /\ LET a == audioElementRef
         t == IF newTime > audios[a].dur THEN audios[a].dur ELSE newTime
     IN audios' = [audios EXCEPT ![a].time = t, ![a].ended = FALSE]
  /\ currentTime' = newTime
  /\ notice' = "none"
  /\ UNCHANGED << analyzer, isPlaying, duration, inputMode, fileName,
                  isMicActive, isSystemActive, visualizerMode, audioContextRef,
                  audioElementRef, mediaStreamRef, ctxs, streams, pendingMic,
                  pendingSys >>
  /\ UNCHANGED selections

\* A selector that also restarts the source (stops playback).
setVisualizerModeRestart(mode) ==
  /\ visualizerMode' = mode
  /\ isPlaying' = FALSE
  /\ audios' = CleanedAudios
  /\ notice' = "none"
  /\ UNCHANGED << analyzer, duration, currentTime, inputMode, fileName,
                  isMicActive, isSystemActive, audioContextRef,
                  audioElementRef, mediaStreamRef, ctxs, streams, pendingMic,
                  pendingSys >>
  /\ UNCHANGED selections

\* The visualizer selector: onClick={() => setVisualizerMode(mode)}
setVisualizerMode(mode) ==
  /\ visualizerMode' = mode
  /\ notice' = "none"
  /\ UNCHANGED << analyzer, isPlaying, duration, currentTime, inputMode,
                  fileName, isMicActive, isSystemActive, audioContextRef,
                  audioElementRef, mediaStreamRef, ctxs, audios, streams,
                  pendingMic, pendingSys >>
  /\ UNCHANGED selections

\* ================================================================ scene
\* The visualizers.  One mesh of the mounted visualizer is observed, the one
\* at index `probe` (if the visualizer has that many).  Every quantity is an exact
\* rational kept as an integer numerator; the unit is stated where it is set.
\*   bars:   scale n/(255*20^k)    hue, light n/2550   rot n/1000
\*   linear: scale n/(255*5^k)     pos n/(510*5^k)     hue, light n/5100
\*   sphere: scale n/(16320*5^k)   light n/10          rot n/1000
\*   wave:   scale, hue n/1280     pos n/128   rad n/64   light n/2   rot n/1000
\* k counts the frames since the mount, v is the byte read in the last one
\* and target the target it computed (the displacement for the wave).  The analyser's buffer holds one byte value in every bin, and the
\* same value in every frame for as long as a visualizer stays mounted.
Null == -1

BarCount == 64
LinearBarCount == 48
WaveCount == 128
FftSize == 256
FrequencyBinCount == FftSize \div 2

Count(mode) ==
  CASE mode = "bars" -> BarCount
    [] mode = "linear" -> LinearBarCount
    [] mode = "sphere" -> 1
    [] mode = "wave" -> WaveCount

NoElem ==
  [idx |-> Null, k |-> 0, v |-> Null, target |-> 0, scale |-> 0, pos |-> 0,
   rad |-> 0, hue |-> 0, light |-> 0, rot |-> 0]

\* A mesh as the JSX creates it: scale 1, the material's colour, at rest.
Fresh(mode, i) ==
  CASE mode = "bars" ->
         [NoElem EXCEPT !.idx = i, !.scale = 255, !.hue = 1275, !.light = 1275]
    [] mode = "linear" ->
         [NoElem EXCEPT !.idx = i, !.scale = 255, !.hue = 2550, !.light = 2550]
    [] mode = "sphere" ->
         [NoElem EXCEPT !.idx = i, !.scale = 16320, !.light = 10]
    [] mode = "wave" ->
         [NoElem EXCEPT !.idx = i, !.scale = 1280, !.rad = 640, !.hue = 640,
                        !.light = 1]

\* The meshes observed: the first one, and the last one of each visualizer.
Probes == {0, LinearBarCount - 1, BarCount - 1, WaveCount - 1}

SceneInit ==
  /\ hoveredIndex = Null
  /\ elem = NoElem
  /\ lastFrame = "none"

Max(a, b) == IF a >= b THEN a ELSE b
Abs(a) == IF a >= 0 THEN a ELSE 0 - a

RECURSIVE Pow(_, _)
Pow(b, k) == IF k = 0 THEN 1 ELSE b * Pow(b, k - 1)

\* An interpolation with its weights exchanged: lerp(x, y, 1 - t).
LerpExchanged(n, target, a, b, k) == a * n + (b - a) * target * Pow(b, k)

\* THREE.MathUtils.lerp(x, y, t) = (1 - t) * x + t * y with t = a/b, x = n
\* over unit*b^k and y = target over unit: the numerator over unit*b^(k+1).
Lerp(n, target, a, b, k) == (b - a) * n + a * target * Pow(b, k)

\* dataArray[index] of a Uint8Array of length len (-1: undefined)
ByteAt(data, len, index) == IF index >= 0 /\ index < len THEN data ELSE Null

\* A hover that multiplies the audio scale by 1.5 instead of flooring it.
BarTargetScaleBoost(frequencyValue, isHovered) ==
  LET targetScale == Max(102, 8 * frequencyValue)
  IN IF isHovered THEN (3 * targetScale) \div 2 ELSE targetScale

\* Math.max(0.4, (frequencyValue / 255) * 8), floored at 12 when hovered;
\* in units of 1/255.
BarTargetScale(frequencyValue, isHovered) ==
  LET targetScale == Max(102, 8 * frequencyValue)
  IN IF isHovered THEN Max(targetScale, 3060) ELSE targetScale

\* BarVisualizer useFrame, past the guard, for the observed bar
BarStep(e, data) ==
  IF e.idx = Null   \* if (!bar) return
  THEN e
  ELSE
    LET i == e.idx
        index == (i * (FrequencyBinCount \div 2)) \div BarCount
        frequencyValue == ByteAt(data, FrequencyBinCount, index)
        isHovered == hoveredIndex = i
        targetScale == BarTargetScale(frequencyValue, isHovered)
    IN [e EXCEPT
          !.target = targetScale,
          !.scale = Lerp(e.scale, targetScale, 3, 20, e.k),
          !.k = @ + 1,
          !.v = data,
          !.hue = IF isHovered THEN 1530 ELSE 1275 + 4 * frequencyValue,
          !.light = IF isHovered THEN 2550 ELSE 765 + 4 * frequencyValue,
          !.rot = @ - 2]

BarVisualizerFrame(e, data) == IF analyzer = 0 THEN e ELSE BarStep(e, data)

\* Math.max(0.2, (frequencyValue / 255) * 14), floored at 15 when hovered;
\* in units of 1/255.
LinearTargetHeight(frequencyValue, isHovered) ==
  LET targetHeight == Max(51, 14 * frequencyValue)
  IN IF isHovered THEN Max(targetHeight, 3825) ELSE targetHeight

\* An index that spreads the bars over the whole buffer.
LinearIndexWhole(i, len) == (i * len) \div LinearBarCount

\* Math.floor((i / barCount) * (dataArray.length * 0.8))
LinearIndex(i, len) == (i * len * 8) \div (LinearBarCount * 10)

\* A linear frame that scales the bar about its centre: the position stays.
LinearStepAboutCentre(e, data) ==
  IF e.idx = Null
  THEN e
  ELSE
    LET i == e.idx
        index == LinearIndex(i, FrequencyBinCount)
        frequencyValue == ByteAt(data, FrequencyBinCount, index)
        isHovered == hoveredIndex = i
        targetHeight == LinearTargetHeight(frequencyValue, isHovered)
        newScale == Lerp(e.scale, targetHeight, 1, 5, e.k)
    IN [e EXCEPT
          !.target = targetHeight,
          !.scale = newScale,
          !.k = @ + 1,
          !.v = data,
          !.hue = 3060 - 3 * frequencyValue,
          !.light = IF isHovered THEN 5100 ELSE 2040 + 12 * frequencyValue]

\* LinearBarVisualizer useFrame, past the guard, for the observed bar
LinearStep(e, data) ==
  IF e.idx = Null   \* if (!bar) return
  THEN e
  ELSE
    LET i == e.idx
        index == LinearIndex(i, FrequencyBinCount)
        frequencyValue == ByteAt(data, FrequencyBinCount, index)
        isHovered == hoveredIndex = i
        targetHeight == LinearTargetHeight(frequencyValue, isHovered)
        newScale == Lerp(e.scale, targetHeight, 1, 5, e.k)
    IN [e EXCEPT
          !.target = targetHeight,
          !.scale = newScale,
          !.k = @ + 1,
          !.v = data,
          !.pos = newScale,
          !.hue = 3060 - 3 * frequencyValue,
          !.light = IF isHovered THEN 5100 ELSE 2040 + 12 * frequencyValue]

LinearBarVisualizerFrame(e, data) == IF analyzer = 0 THEN e ELSE LinearStep(e, data)

RECURSIVE SumBins(_, _, _)
SumBins(data, len, n) ==
  IF n = 0 THEN 0 ELSE SumBins(data, len, n - 1) + ByteAt(data, len, n - 1)

\* scaleBase = 1 + (average / 255) * 2.5, times 1.5 when hovered; in units
\* of 1/16320 (average = sum / 16).
SphereTargetScale(sum, isHovered) ==
  LET scaleBase == 16320 + 10 * sum
  IN IF isHovered THEN (3 * scaleBase) \div 2 ELSE scaleBase

\* The colour's hue follows the clock, which is not recorded.
SphereStep(e, data) ==
  LET sum == SumBins(data, FrequencyBinCount, 16)
      isHovered == hoveredIndex # Null
      targetScale == SphereTargetScale(sum, isHovered)
  IN [e EXCEPT
        !.target = targetScale,
        !.scale = Lerp(e.scale, targetScale, 1, 5, e.k),
        !.k = @ + 1,
        !.v = data,
        !.light = IF isHovered THEN 8 ELSE 5,
        !.rot = @ + 5]

SphereVisualizerFrame(e, data) ==
  IF analyzer = 0 \/ e.idx = Null THEN e ELSE SphereStep(e, data)

\* A displacement centred on 127.5, the middle of the byte range.
WaveDisplacementMidRange(value, isHovered) ==
  (3 * (2 * value - 255)) \div 2 + (IF isHovered THEN 320 ELSE 0)

\* ((value - 128) / 128) * 6, plus 5 when hovered; in units of 1/64.
WaveDisplacement(value, isHovered) ==
  3 * (value - 128) + (IF isHovered THEN 320 ELSE 0)

WaveStep(e, data) ==
  IF e.idx = Null   \* if (!mesh) return
  THEN e
  ELSE
    LET i == e.idx
        index == (i * FftSize) \div WaveCount
        value == ByteAt(data, FftSize, index)
        isHovered == hoveredIndex = i
        displacement == WaveDisplacement(value, isHovered)
        intensity5 == 5 * Abs(displacement)
    IN [e EXCEPT
          !.target = displacement,
          !.rad = 640 + displacement,
          !.pos = 3 * displacement,
          !.hue = 768 + intensity5,
          !.light = IF isHovered THEN 2 ELSE 1,
          !.scale = (IF isHovered THEN 512 ELSE 256) + intensity5,
          !.k = @ + 1,
          !.v = data,
          !.rot = @ + 2]

WaveVisualizerFrame(e, data) == IF analyzer = 0 THEN e ELSE WaveStep(e, data)

VisualizerFrame(mode, e, data) ==
  CASE mode = "bars" -> BarVisualizerFrame(e, data)
    [] mode = "linear" -> LinearBarVisualizerFrame(e, data)
    [] mode = "sphere" -> SphereVisualizerFrame(e, data)
    [] mode = "wave" -> WaveVisualizerFrame(e, data)

VisualizerStep(mode, e, data) ==
  CASE mode = "bars" -> BarStep(e, data)
    [] mode = "linear" -> LinearStep(e, data)
    [] mode = "sphere" -> SphereStep(e, data)
    [] mode = "wave" -> WaveStep(e, data)

\* A frame whose mapping runs whether or not there is an analyser.
FrameUnguarded(data) ==
  /\ elem.k < MaxFrames
  /\ elem.v \in {Null, data}
  /\ elem' = VisualizerStep(visualizerMode, elem, data)
  /\ lastFrame' = visualizerMode
  /\ UNCHANGED << ctlVars, probe, hoveredIndex >>

\* One display frame: the useFrame callback of the visualizer the render
\* mounted ({analyzer && ...}), or none when the placeholder is shown.
Frame(data) ==
  /\ IF analyzer # 0
     THEN /\ elem.k < MaxFrames
          /\ elem.v \in {Null, data}
          /\ elem' = VisualizerFrame(visualizerMode, elem, data)
          /\ lastFrame' = visualizerMode
     ELSE /\ elem' = elem
          /\ lastFrame' = "idle"
  /\ UNCHANGED << ctlVars, probe, hoveredIndex >>

\* A visualizer component mounts: fresh meshes, a fresh hover ref.
Mount(mode) ==
  /\ hoveredIndex' = Null
  /\ elem' = IF probe < Count(mode) THEN Fresh(mode, probe) ELSE NoElem
  /\ lastFrame' = "none"

\* onPointerOver of the observed mesh or of its neighbour
PointerOver(i) ==
  /\ analyzer # 0
  /\ i < Count(visualizerMode)
  /\ hoveredIndex' = i
  /\ UNCHANGED << ctlVars, probe, elem, lastFrame >>

PointerOut ==
  /\ analyzer # 0
  /\ hoveredIndex' = Null
  /\ UNCHANGED << ctlVars, probe, elem, lastFrame >>

\* The first source: a file is selected and the render mounts the visualizer.
FirstSource ==
  /\ analyzer = 0
  /\ \E f \in Files : handleFileChange(f)
  /\ Mount(visualizerMode)
  /\ UNCHANGED probe

\* A mode is selected; with an analyser the render swaps the visualizer.
SelectMode(m) ==
  /\ setVisualizerMode(m)
  /\ IF analyzer # 0 /\ m # visualizerMode
     THEN Mount(m)
     ELSE UNCHANGED << hoveredIndex, elem, lastFrame >>
  /\ UNCHANGED probe

\* ------------------------------------------------------------------ Next
\* Spec follows the controller through every source handler and callback,
\* with the scene left aside; SpecView follows the scene, frame by frame,
\* for every observed mesh and every byte value.
Init ==
  /\ CtlInit
  /\ SceneInit
  /\ probe = 0

Next ==
  \/ \E f \in Files : handleFileChange(f) /\ UNCHANGED sceneVars
  \/ \E a \in 1..Len(audios) : LoadedMetadata(a) /\ UNCHANGED sceneVars
  \/ \E a \in 1..Len(audios) : PlayResolved(a) /\ UNCHANGED sceneVars
  \/ \E a \in 1..Len(audios) : PlayRejected(a) /\ UNCHANGED sceneVars
  \/ \E a \in 1..Len(audios) : TimeUpdate(a) /\ UNCHANGED sceneVars
  \/ \E a \in 1..Len(audios) : Ended(a) /\ UNCHANGED sceneVars
  \/ handleMicInput /\ UNCHANGED sceneVars
  \/ MicGranted /\ UNCHANGED sceneVars
  \/ MicDenied /\ UNCHANGED sceneVars
  \/ handleSystemAudio /\ UNCHANGED sceneVars
  \/ \E b \in BOOLEAN : SystemGranted(b) /\ UNCHANGED sceneVars
  \/ SystemDenied /\ UNCHANGED sceneVars
  \/ \E s \in 1..Len(streams) : StopSharing(s) /\ UNCHANGED sceneVars
  \/ togglePlay /\ UNCHANGED sceneVars
  \/ \E t \in 0..duration : handleSeek(t) /\ UNCHANGED sceneVars
  \/ \E m \in Modes : setVisualizerMode(m) /\ UNCHANGED sceneVars

Spec == Init /\ [][Next]_vars

InitView ==
  /\ CtlInit
  /\ SceneInit
  /\ probe \in Probes

NextView ==
  \/ FirstSource
  \/ \E m \in Modes : SelectMode(m)
  \/ \E i \in {probe, (probe + 1) % Count(visualizerMode)} : PointerOver(i)
  \/ PointerOut
  \/ \E data \in 0..255 : Frame(data)

SpecView == InitView /\ [][NextView]_vars


\* =============================================================== claims
AllStopped(st) == \A k \in DOMAIN st.tracks : st.tracks[k] \in {"none", "ended"}

\* A getUserMedia or getDisplayMedia promise is rejected in this step: one
\* pending request fewer and no stream granted.
MicRejectedStep == pendingMic' = pendingMic - 1 /\ Len(streams') = Len(streams)
SysRejectedStep == pendingSys' = pendingSys - 1 /\ Len(streams') = Len(streams)

\* C1: every audio context ever created, other than the one held in
\* audioContextRef, is closed (at most one context is open at a time).
C1_AtMostOneOpenContext ==
  \A c \in 1..Len(ctxs) : c # audioContextRef => ctxs[c] = "closed"

\* C2: every media stream ever granted, other than the one held in
\* mediaStreamRef, has all of its tracks stopped.
C2_NoLiveUnreferencedStream ==
  \A s \in 1..Len(streams) : s # mediaStreamRef => AllStopped(streams[s])

\* C3: when cleanupAudio has run and no source is attached (no audio element,
\* no stream and no context is held), the analyzer state is null.
C3_IdleAfterCleanup ==
  (audioContextRef = 0 /\ audioElementRef = 0 /\ mediaStreamRef = 0)
    => analyzer = 0

\* C4: in a frame with no analyser nothing reads a buffer or touches the
\* observed mesh: the element is unchanged and the frame ran no mapping.
C4_IdleFrameIsNoOp ==
  [][analyzer = 0 /\ analyzer' = 0 =>
       /\ elem' = elem
       /\ lastFrame' \in {lastFrame, "idle"}]_vars

C4_Witness ==
  analyzer = 0 /\ lastFrame = "idle" /\ visualizerMode = "wave"

\* C5: a step that changes visualizerMode changes nothing else of the
\* controller: analyser, context, element, stream, flags, times all stay.
C5_ModeSwitchIsOrthogonal ==
  [][visualizerMode' # visualizerMode =>
       UNCHANGED << analyzer, audioContextRef, audioElementRef,
                    mediaStreamRef, isPlaying, isMicActive, isSystemActive,
                    currentTime, duration, ctxs, audios, streams >>]_vars

C5_Witness ==
  /\ visualizerMode = "sphere"
  /\ isPlaying
  /\ currentTime > 0
  /\ analyzer # 0
  /\ audioElementRef # 0
  /\ ~audios[audioElementRef].paused

\* C6: a rejected getUserMedia or getDisplayMedia request shows the user an
\* alert in the step that handles the rejection.
C6_DenialIsAlerted ==
  [][MicRejectedStep \/ SysRejectedStep => notice' # "none"]_vars

\* C7: after a rejected acquisition the system is idle (no flag set, no
\* stream held, no context open, no analyser) and no new request was issued.
\* Stated for the plain case: the rejected request is the only one pending
\* and nothing was attached since its handler ran cleanupAudio.
C7_DenialLeavesIdle ==
  [][(/\ MicRejectedStep \/ SysRejectedStep
      /\ pendingMic + pendingSys = 1
      /\ audioContextRef = 0 /\ audioElementRef = 0 /\ mediaStreamRef = 0) =>
       /\ ~isMicActive' /\ ~isSystemActive' /\ ~isPlaying'
       /\ mediaStreamRef' = 0
       /\ \A c \in 1..Len(ctxs') : ctxs'[c] = "closed"
       /\ analyzer' = 0
       /\ pendingMic' + pendingSys' < pendingMic + pendingSys]_vars

C9_PlayFailureLeavesNotPlaying ==
  [][(\E a \in 1..Len(audios) :
        /\ audios[a].pending # {}
        /\ audios'[a].pending = {}
        /\ audios'[a].paused) => ~isPlaying']_vars

\* C10: the target scale a radial-bar frame computes from sample v is
\* max(0.4, v/255*8), within [0.4, 8], when the bar is not the hovered one,
\* and max(that, 12), so at least 12, when it is (units of 1/255).
C10_BarTargetScale ==
  [][(lastFrame' = "bars" /\ elem'.k = elem.k + 1) =>
       LET v == elem'.v
           audio == IF 8 * v >= 102 THEN 8 * v ELSE 102
       IN /\ v \in 0..255
          /\ audio >= 102 /\ audio <= 2040
          /\ hoveredIndex # elem.idx => elem'.target = audio
          /\ hoveredIndex = elem.idx =>
               /\ elem'.target >= 3060
               /\ elem'.target = IF audio >= 3060 THEN audio ELSE 3060]_vars

C10_Witness ==
  /\ lastFrame = "bars"
  /\ elem.idx = BarCount - 1
  /\ elem.v = 255
  /\ elem.target = 3060
  /\ elem.k = 2

\* C11: for every linear bar i in 0..47 the sample index
\* floor((i/48) * length * 0.8) is a valid index of the frequency buffer and
\* lies strictly below 80% of its length; the byte a linear frame reads for
\* the observed bar is therefore a defined one.
C11_LinearIndexBelow80Percent ==
  [][(lastFrame' = "linear" /\ elem'.k = elem.k + 1) =>
       /\ elem'.v \in 0..255
       /\ \A i \in 0..(LinearBarCount - 1) :
            LET index == LinearIndex(i, FrequencyBinCount)
            IN /\ index >= 0
               /\ index < FrequencyBinCount
               /\ 10 * index < 8 * FrequencyBinCount]_vars

C11_Witness ==
  /\ lastFrame = "linear"
  /\ elem.idx = LinearBarCount - 1
  /\ elem.k >= 1
  /\ elem.v = 255

\* C12: the displacement a wave frame computes from time-domain sample v is
\* ((v - 128) / 128) * 6 for the element that is not hovered: 0 at 128, -6 at
\* 0, 762/128 at 255, always in [-6, 6); and that value plus 5 for the
\* hovered element (units of 1/64: 6 = 384, 5 = 320, 762/128 = 381).
C12_WaveDisplacement ==
  [][(lastFrame' = "wave" /\ elem'.k = elem.k + 1) =>
       LET v == elem'.v
           plain == elem'.target - (IF hoveredIndex = elem.idx THEN 320 ELSE 0)
       IN /\ v \in 0..255
          /\ 128 * plain = 64 * 6 * (v - 128)
          /\ plain >= -384 /\ plain < 384
          /\ v = 128 => plain = 0
          /\ v = 0 => plain = -384
          /\ v = 255 => plain = 381
          /\ hoveredIndex # elem.idx => elem'.target = plain
          /\ hoveredIndex = elem.idx => elem'.target = plain + 320]_vars

C12_Witness ==
  /\ lastFrame = "wave"
  /\ elem.idx = WaveCount - 1
  /\ elem.v = 255
  /\ elem.target = 381 + 320
  /\ hoveredIndex = elem.idx

\* C13: a smoothing frame (factor f = a/b: 3/20 radial bars, 1/5 linear bars
\* and sphere) leaves the displayed scale at (1 - f) times its former signed
\* distance from the frame's target: the distance shrinks by that factor,
\* the scale stays on the side of the target it was on and does not pass it.
\* Frames with a constant target therefore close in on it geometrically.
\* (Scale: n over unit*b^k before, unit*b^(k+1) after; target over unit.)
C13_SmoothingContracts ==
  [][(lastFrame' \in {"bars", "linear", "sphere"} /\ elem'.k = elem.k + 1) =>
       LET a == IF lastFrame' = "bars" THEN 3 ELSE 1
           b == IF lastFrame' = "bars" THEN 20 ELSE 5
           target == elem'.target
           before == elem.scale - target * Pow(b, elem.k)
           after == elem'.scale - target * Pow(b, elem.k + 1)
       IN /\ after = (b - a) * before
          /\ before > 0 => after > 0
          /\ before < 0 => after < 0
          /\ before = 0 => after = 0
          /\ before # 0 => Abs(after) < b * Abs(before)]_vars

\* Two linear frames from scale 1 toward the constant target 14 (byte 255):
\* 1 -> 3.6 -> 5.68, the distance 13 -> 10.4 -> 8.32.
C13_Witness ==
  /\ lastFrame = "linear"
  /\ elem.k = 2
  /\ elem.v = 255
  /\ elem.target = 3570
  /\ elem.scale = 36210

\* C15: after every frame in which the linear mapping ran, the observed
\* bar's vertical position is exactly half its smoothed vertical scale, for
\* every sample and hover state (position pos/(510*5^k), scale
\* scale/(255*5^k): twice the one equals the other).
C15_LinearBarStandsOnBaseline ==
  (lastFrame = "linear" /\ elem.k >= 1) =>
     2 * elem.pos * 255 = elem.scale * 510

\* One frame of a hovered bar at byte 255: scale 1 -> 3.8, position 1.9.
C15_Witness ==
  /\ lastFrame = "linear"
  /\ elem.k = 1
  /\ elem.v = 255
  /\ hoveredIndex = elem.idx
  /\ elem.scale = 4845
  /\ elem.pos = 4845

\* C14: a step that changes an audio element other than the one held in
\* audioElementRef (a callback of a torn-down element: loadedmetadata, the
\* settling of its play(), timeupdate, ended) leaves that element paused
\* and writes none of isPlaying, duration and currentTime.
C14_TornDownElementIsSilent ==
  [][\A a \in 1..Len(audios) :
       (a # audioElementRef /\ audios'[a] # audios[a]) =>
          /\ audios'[a].paused
          /\ UNCHANGED << isPlaying, duration, currentTime >>]_vars

\* C16: at most one of isPlaying, isMicActive and isSystemActive is true.
C16_AtMostOneActivityFlag ==
  /\ ~(isPlaying /\ isMicActive)
  /\ ~(isPlaying /\ isSystemActive)
  /\ ~(isMicActive /\ isSystemActive)

====
